---- MODULE Spec2Model ----
(***************************************************************************)
(* Model of src/adjnews.py: the AdjNews client (construction, the _get     *)
(* helper, semantic_search, list_markets) together with the part of the    *)
(* requests library the client relies on (Session default headers and      *)
(* params, raise_for_status, Response.json and the exception hierarchy).   *)
(*                                                                         *)
(* Python values are records [type, s, n]: type is the Python type name,   *)
(* s the text of a str (or the str() of a bool, float or None) and n the   *)
(* number of an int.  A Python str used as a URL is a sequence of tokens   *)
(* in which "/" is the slash character and every other token stands for a  *)
(* run of characters without a slash.                                      *)
(***************************************************************************)
EXTENDS Integers, Sequences, FiniteSets, TLC

VARIABLES
    environ,    \* value of ADJ_NEWS_API_KEY in os.environ (None when unset)
    baseUrl,    \* AdjNews.BASE_URL
    client,     \* the AdjNews object: NoClient, or [api_key, session]
    pc,         \* position of the caller: "idle", "sent" (inside session.get), "received"
    call,       \* the operation in progress and its arguments as the caller passed them
    request,    \* the GET request on the wire: url, params, headers
    url,        \* the local variable url of _get
    response,   \* what session.get produced for the request in progress
    result,     \* how the last finished operation ended: returned value or raised error
    init_arg,   \* the api_key argument of the last AdjNews(...) call
    ncalls,     \* number of semantic_search / list_markets calls started
    nsent       \* number of GET requests handed to the network

vars == <<environ, baseUrl, client, pc, call, request, url, response, result, init_arg, ncalls, nsent>>

-----------------------------------------------------------------------------
(* Bounds *)

MaxCalls == 2

MaxLen == 3

-----------------------------------------------------------------------------
(* Python values *)

None == [type |-> "NoneType", s |-> "None", n |-> 0]

StrV(x) == [type |-> "str", s |-> x, n |-> 0]

IntV(i) == [type |-> "int", s |-> "", n |-> i]

FloatV(x) == [type |-> "float", s |-> x, n |-> 0]

BoolV(b) == [type |-> "bool", s |-> IF b THEN "True" ELSE "False", n |-> 0]

\* an argument the caller did not pass: the signature's default applies
Unsupplied == [type |-> "<unsupplied>", s |-> "", n |-> 0]

\* Python truthiness, as tested by `not x`
Truthy(v) ==
    CASE v.type = "NoneType" -> FALSE
      [] v.type = "str"      -> v.s # ""
      [] v.type = "bool"     -> v.s = "True"
      [] v.type = "int"      -> v.n # 0
      [] v.type = "float"    -> v.s # "0.0"
      [] OTHER               -> TRUE

\* binding of a parameter that has a default value
Default(v, d) == IF v = Unsupplied THEN d ELSE v

\* str(x) of a bool, str or None
PyStr(v) == StrV(v.s)

\* str.lower() on the texts that occur
PyLower(v) ==
    StrV(CASE v.s = "True"  -> "true"
          [] v.s = "False" -> "false"
          [] v.s = "None"  -> "none"
          [] OTHER         -> v.s)

-----------------------------------------------------------------------------
(* str.rstrip('/') and str.lstrip('/') on token sequences *)

RECURSIVE RStrip(_)
RStrip(s) ==
    IF s # <<>> /\ s[Len(s)] = "/" THEN RStrip(SubSeq(s, 1, Len(s) - 1)) ELSE s

RECURSIVE LStrip(_)
LStrip(s) ==
    IF s # <<>> /\ s[1] = "/" THEN LStrip(Tail(s)) ELSE s

\* the f-string of _get: f"{BASE_URL.rstrip('/')}/{endpoint.lstrip('/')}"
JoinUrlKeepSlashes(base, endpoint) == base \o <<"/">> \o endpoint

JoinUrl(base, endpoint) == RStrip(base) \o <<"/">> \o LStrip(endpoint)

BASE_URL == <<"https:", "/", "/", "api.data.adj.news">>

SearchEndpoint == <<"/", "api", "/", "search", "/", "query">>

MarketsEndpoint == <<"/", "api", "/", "markets">>

-----------------------------------------------------------------------------
(* dict.update and the requests.Session the client owns *)

Update(d, u) == u @@ d

EmptyDict == [k \in {} |-> None]

\* a fresh requests.Session(): the library's default headers, no default params
NewSession ==
    [headers |-> [k \in {"User-Agent", "Accept-Encoding", "Accept", "Connection"} |->
                    CASE k = "User-Agent"      -> <<"python-requests">>
                      [] k = "Accept-Encoding" -> <<"gzip, deflate">>
                      [] k = "Accept"          -> <<"*/*">>
                      [] k = "Connection"      -> <<"keep-alive">>],
     params  |-> EmptyDict]

\* AdjNews._init_session
InitSession(api_key) ==
    [NewSession EXCEPT !.headers =
        Update(@, [k \in {"Authorization", "Accept"} |->
                     IF k = "Authorization" THEN <<"Bearer ", api_key.s>>
                                            ELSE <<"application/json">>])]

\* os.getenv("ADJ_NEWS_API_KEY", None)
Getenv(env) == env

\* the credential AdjNews.__init__ settles on; None when it raises
ResolveKeyEnvFirst(api_key, env) ==
    IF Truthy(Getenv(env)) THEN Getenv(env)
    ELSE IF Truthy(api_key) THEN api_key ELSE None

ResolveKeyIsNone(api_key, env) ==
    IF Truthy(api_key) THEN api_key ELSE Getenv(env)

ResolveKey(api_key, env) ==
    IF Truthy(api_key) THEN api_key
    ELSE IF Truthy(Getenv(env)) THEN Getenv(env) ELSE None

NoClient == [constructed |-> FALSE]

NoCall == [op |-> "none"]

NoRequest == [sent |-> FALSE]

NoResponse == [kind |-> "none"]

NoResult == [op |-> "none", outcome |-> "none", value |-> "", cls |-> "", msg |-> <<>>]

Returned(op, v) == [op |-> op, outcome |-> "returned", value |-> v, cls |-> "", msg |-> <<>>]

Raised(op, cls, msg) == [op |-> op, outcome |-> "raised", value |-> "", cls |-> cls, msg |-> msg]

ApiKeyArgs == {Unsupplied, StrV(""), StrV("k1")}

EnvValues == {None, StrV(""), StrV("envk")}

Init ==
    /\ environ \in EnvValues
    /\ baseUrl = BASE_URL
    /\ client = NoClient
    /\ pc = "idle"
    /\ call = NoCall
    /\ request = NoRequest
    /\ url = <<>>
    /\ response = NoResponse
    /\ result = NoResult
    /\ init_arg = Unsupplied
    /\ ncalls = 0
    /\ nsent = 0

\* AdjNews.__init__(api_key)
Construct(arg) ==
    /\ pc = "idle"
    /\ client = NoClient
    /\ init_arg' = arg
    /\ LET api_key == ResolveKey(Default(arg, None), environ) IN
         IF api_key = None
         THEN /\ result' = Raised("__init__", "AdjNewsError", <<"ADJ_NEWS_API_KEY Not Found.">>)
              /\ client' = client
         ELSE /\ result' = Returned("__init__", "")
              /\ client' = [constructed |-> TRUE, api_key |-> api_key,
                            session |-> InitSession(api_key)]
    /\ UNCHANGED <<environ, baseUrl, pc, call, request, url, response, ncalls, nsent>>

-----------------------------------------------------------------------------
(* Parameter assembly *)

SearchKeys == {"q", "limit", "include_context"}

RequiredKeys == {"limit", "offset", "sort_by", "sort_dir", "include_closed", "include_resolved"}

OptionalKeys == {"platform", "status", "category", "market_type", "keyword", "tag",
                 "created_after", "created_before", "probability_min", "probability_max"}

DefaultSearchLimit == 10

DefaultListLimit == 5

DefaultOffset == 0

\* the parameters of semantic_search after the defaults of its signature are applied
BindSearchListDefault(args) ==
    [query           |-> args.query,
     limit           |-> Default(args.limit, IntV(5)),
     include_context |-> Default(args.include_context, BoolV(FALSE))]

BindSearch(args) ==
    [query           |-> args.query,
     limit           |-> Default(args.limit, IntV(DefaultSearchLimit)),
     include_context |-> Default(args.include_context, BoolV(FALSE))]

\* the dict params built by semantic_search
SearchParams(args) ==
    LET a == BindSearch(args) IN
    [k \in SearchKeys |->
        CASE k = "q"               -> a.query
          [] k = "limit"           -> a.limit
          [] k = "include_context" -> a.include_context]

\* the parameters of list_markets after the defaults of its signature are applied
BindList(args) ==
    [k \in RequiredKeys \cup OptionalKeys |->
        CASE k = "limit"            -> Default(args[k], IntV(DefaultListLimit))
          [] k = "offset"           -> Default(args[k], IntV(DefaultOffset))
          [] k = "sort_by"          -> Default(args[k], StrV("updated_at"))
          [] k = "sort_dir"         -> Default(args[k], StrV("desc"))
          [] k = "include_closed"   -> Default(args[k], BoolV(FALSE))
          [] k = "include_resolved" -> Default(args[k], BoolV(FALSE))
          [] OTHER                  -> Default(args[k], None)]

\* the test of the loop over optional_params: `if value is not None`
KeepOptionalIfTruthy(value) == Truthy(value)

KeepOptional(value) == value # None

\* the dict params built by list_markets
ListParamsCoerceSort(args) ==
    LET a == BindList(args)
        kept == {k \in OptionalKeys : KeepOptional(a[k])}
    IN  [k \in RequiredKeys \cup kept |->
            CASE k = "include_closed"   -> PyLower(PyStr(a[k]))
              [] k = "include_resolved" -> PyLower(PyStr(a[k]))
              [] k = "sort_by"          ->
                    IF a[k].s \in {"created_at", "updated_at", "end_date",
                                   "probability", "volume", "liquidity"}
                    THEN a[k] ELSE StrV("updated_at")
              [] OTHER                  -> a[k]]

ListParams(args) ==
    LET a == BindList(args)
        kept == {k \in OptionalKeys : KeepOptional(a[k])}
    IN  [k \in RequiredKeys \cup kept |->
            CASE k = "include_closed"   -> PyLower(PyStr(a[k]))
              [] k = "include_resolved" -> PyLower(PyStr(a[k]))
              [] OTHER                  -> a[k]]

-----------------------------------------------------------------------------
(* _get: the request *)

\* requests' merge of the session's default params with the params of the call:
\* the call's values win and keys whose value is None are dropped
MergeSetting(request_setting, session_setting) ==
    LET merged == Update(session_setting, request_setting)
    IN  [k \in {x \in DOMAIN merged : merged[x] # None} |-> merged[k]]

\* the session after session.get(url, params=params): the call leaves it as it was
SessionAfterGetRemembers(session, params) ==
    [session EXCEPT !.params = Update(@, params)]

SessionAfterGet(session, params) == session

\* _get up to and including the call of self.session.get(url, params=params)
GetSend(endpoint, params) ==
    /\ url' = JoinUrl(baseUrl, endpoint)
    /\ request' = [sent    |-> TRUE,
                   url     |-> url',
                   params  |-> MergeSetting(params, client.session.params),
                   headers |-> client.session.headers]
    /\ client' = [client EXCEPT !.session = SessionAfterGet(@, params)]
    /\ nsent' = nsent + 1
    /\ pc' = "sent"
    /\ response' = NoResponse
    /\ result' = NoResult

-----------------------------------------------------------------------------
(* The operations *)

Queries == {StrV(""), StrV("inflation")}

SearchLimits == {Unsupplied, IntV(5)}

BoolArgs == {Unsupplied, BoolV(TRUE), BoolV(FALSE)}

SemanticSearch ==
    /\ pc = "idle"
    /\ client # NoClient
    /\ ncalls < MaxCalls
    /\ ncalls' = ncalls + 1
    /\ \E query \in Queries, limit \in SearchLimits, include_context \in BoolArgs :
          call' = [op   |-> "semantic_search",
                   args |-> [query |-> query, limit |-> limit,
                             include_context |-> include_context]]
    /\ GetSend(SearchEndpoint, SearchParams(call'.args))
    /\ UNCHANGED <<environ, baseUrl, init_arg>>

\* a value a caller may pass for each optional filter
FilterSample ==
    [k \in OptionalKeys |->
        CASE k = "platform"        -> StrV("kalshi")
          [] k = "status"          -> StrV("active")
          [] k = "category"        -> StrV("politics")
          [] k = "market_type"     -> StrV("binary")
          [] k = "keyword"         -> StrV("")
          [] k = "tag"             -> StrV("election")
          [] k = "created_after"   -> StrV("2025-01-01T00:00:00Z")
          [] k = "created_before"  -> StrV("2025-12-31T00:00:00Z")
          [] k = "probability_min" -> FloatV("0.5")
          [] k = "probability_max" -> FloatV("0.0")]

\* limit, offset, sort_by, sort_dir as a caller may pass them
Orderings == {<<Unsupplied, Unsupplied, Unsupplied, Unsupplied>>,
              <<IntV(7), IntV(20), StrV("volume"), StrV("asc")>>,
              <<Unsupplied, Unsupplied, StrV("bogus"), StrV("sideways")>>}

\* include_closed, include_resolved as a caller may pass them
Flags == {<<Unsupplied, Unsupplied>>,
          <<BoolV(TRUE), BoolV(FALSE)>>,
          <<BoolV(FALSE), BoolV(TRUE)>>}

\* the arguments of a list_markets call: the filters in supplied are passed,
\* those in passedNone are passed as None, every other filter is left out
ListArgs(supplied, passedNone, ordering, flags) ==
    [k \in RequiredKeys \cup OptionalKeys |->
        CASE k = "limit"            -> ordering[1]
          [] k = "offset"           -> ordering[2]
          [] k = "sort_by"          -> ordering[3]
          [] k = "sort_dir"         -> ordering[4]
          [] k = "include_closed"   -> flags[1]
          [] k = "include_resolved" -> flags[2]
          [] OTHER                  -> IF k \in supplied THEN FilterSample[k]
                                       ELSE IF k \in passedNone THEN None
                                       ELSE Unsupplied]

ListMarkets ==
    /\ pc = "idle"
    /\ client # NoClient
    /\ ncalls < MaxCalls
    /\ ncalls' = ncalls + 1
    /\ \E supplied \in SUBSET OptionalKeys, passedNone \in SUBSET {"platform"},
          ordering \in Orderings, flags \in Flags :
          call' = [op   |-> "list_markets",
                   args |-> ListArgs(supplied, passedNone, ordering, flags)]
    /\ GetSend(MarketsEndpoint, ListParams(call'.args))
    /\ UNCHANGED <<environ, baseUrl, init_arg>>

-----------------------------------------------------------------------------
(* _get: the response *)

ConnectionFailed == [kind |-> "ConnectionError", status |-> 0, json |-> FALSE, value |-> ""]

TimedOut == [kind |-> "Timeout", status |-> 0, json |-> FALSE, value |-> ""]

HttpResponse(status, json, value) ==
    [kind |-> "response", status |-> status, json |-> json, value |-> value]

\* everything session.get can produce: an exception, or a final response with a
\* status and a body that is JSON text (of the value p1 or p2) or is not
Responses ==
    {ConnectionFailed, TimedOut,
     HttpResponse(200, TRUE, "p1"), HttpResponse(200, TRUE, "p2"),
     HttpResponse(200, FALSE, "<html>"),
     HttpResponse(300, TRUE, "p1"), HttpResponse(404, TRUE, "p2"),
     HttpResponse(500, TRUE, "p1"), HttpResponse(500, FALSE, "<html>")}

NoException == [cls |-> "", text |-> ""]

\* Response.raise_for_status raises HTTPError for the statuses 400..599
RaisesForStatus(status) == 400 <= status /\ status < 600

\* the exception raised inside the try block of _get, if any
TryBlock(resp) ==
    CASE resp.kind = "ConnectionError" ->
            [cls |-> "ConnectionError", text |-> "Connection refused"]
      [] resp.kind = "Timeout" ->
            [cls |-> "Timeout", text |-> "Read timed out"]
      [] resp.kind = "response" /\ RaisesForStatus(resp.status) ->
            [cls |-> "HTTPError",
             text |-> IF resp.status < 500 THEN "Client Error" ELSE "Server Error"]
      [] resp.kind = "response" /\ ~RaisesForStatus(resp.status) /\ ~resp.json ->
            [cls |-> "JSONDecodeError", text |-> "Expecting value"]
      [] OTHER -> NoException

\* the subclasses of requests.RequestException among the exceptions above
\* (requests.JSONDecodeError is one since requests 2.27)
RequestExceptions == {"ConnectionError", "Timeout", "HTTPError", "JSONDecodeError"}

\* how _get, and with it the operation that called it, ends
GetResult(op, u, resp) ==
    LET e == TryBlock(resp) IN
    IF e = NoException THEN Returned(op, resp.value)
    ELSE IF e.cls \in RequestExceptions
         THEN Raised(op, "AdjNewsError", <<"GET ">> \o u \o <<" failed: ", e.text>>)
         ELSE Raised(op, e.cls, <<e.text>>)

\* the number of requests sent once the except clause has run: it raises and
\* sends nothing
NsentAfterRetry(n, resp) == IF TryBlock(resp) # NoException THEN n + 1 ELSE n

NsentAfter(n, resp) == n

\* session.get comes back with resp and _get runs to its end
Respond(resp) ==
    /\ pc = "sent"
    /\ response' = resp
    /\ result' = GetResult(call.op, url, resp)
    /\ nsent' = NsentAfter(nsent, resp)
    /\ request' = NoRequest
    /\ call' = NoCall
    /\ pc' = "idle"
    /\ UNCHANGED <<environ, baseUrl, client, url, init_arg, ncalls>>

-----------------------------------------------------------------------------

Next ==
    \/ \E arg \in ApiKeyArgs : Construct(arg)
    \/ SemanticSearch
    \/ ListMarkets
    \/ \E resp \in Responses : Respond(resp)

Spec == Init /\ [][Next]_vars

-----------------------------------------------------------------------------
(* _get on its own, for any base URL and endpoint *)

Chars == {"a", "/"}

Texts == UNION {[1..n -> Chars] : n \in 0..MaxLen}

ExampleBases == {<<"https:", "/", "/", "api.example.com", "/">>,
                 <<"https:", "/", "/", "api.example.com">>}

ExampleEndpoints == {<<"/", "api", "/", "markets">>, <<"api", "/", "markets">>}

ExampleUrl == <<"https:", "/", "/", "api.example.com", "/", "api", "/", "markets">>

InitJoin ==
    /\ environ \in EnvValues
    /\ baseUrl \in Texts \cup ExampleBases
    /\ client = NoClient
    /\ pc = "idle"
    /\ call = NoCall
    /\ request = NoRequest
    /\ url = <<>>
    /\ response = NoResponse
    /\ result = NoResult
    /\ init_arg = Unsupplied
    /\ ncalls = 0
    /\ nsent = 0

\* client._get(endpoint) with no params
Get ==
    /\ pc = "idle"
    /\ client # NoClient
    /\ ncalls < MaxCalls
    /\ ncalls' = ncalls + 1
    /\ \E endpoint \in Texts \cup ExampleEndpoints :
          call' = [op |-> "_get", args |-> [endpoint |-> endpoint]]
    /\ GetSend(call'.args.endpoint, EmptyDict)
    /\ UNCHANGED <<environ, baseUrl, init_arg>>

NextJoin ==
    \/ \E arg \in ApiKeyArgs : Construct(arg)
    \/ Get
    \/ \E resp \in Responses : Respond(resp)

SpecJoin == InitJoin /\ [][NextJoin]_vars

-----------------------------------------------------------------------------
(* Properties *)

Falsy == {Unsupplied, None, StrV("")}

Sent == request # NoRequest

Contains(s, sub) ==
    \E i \in 0..(Len(s) - Len(sub)) : SubSeq(s, i + 1, i + Len(sub)) = sub

\* C1: with an omitted or empty api_key argument and ADJ_NEWS_API_KEY unset or
\* empty, AdjNews(...) raises the "not found" error at construction: no client,
\* no session and no request exists afterwards, and none ever does.
C1_ConstructionFailsWithoutCredential ==
    (init_arg \in Falsy /\ environ \in Falsy) =>
        /\ client = NoClient
        /\ request = NoRequest
        /\ nsent = 0
        /\ ncalls = 0
        /\ result.op = "__init__" =>
              /\ result.outcome = "raised"
              /\ result.cls = "AdjNewsError"
              /\ result.msg = <<"ADJ_NEWS_API_KEY Not Found.">>

C1_Witness ==
    /\ init_arg = StrV("")
    /\ environ = StrV("")
    /\ result.op = "__init__"
    /\ result.outcome = "raised"

\* the credential the claims expect the client to use
ExpectedCredential == IF init_arg \in Falsy THEN environ ELSE init_arg

\* C2: a non-empty api_key argument makes construction succeed, and every
\* request of semantic_search or list_markets carries Authorization: Bearer
\* <credential> and Accept: application/json, where the credential is the
\* argument, or the environment value when the argument is omitted or empty.
C2_BearerHeaderOnEveryRequest ==
    /\ init_arg \notin Falsy => client # NoClient
    /\ client # NoClient => client.api_key = ExpectedCredential
    /\ Sent =>
          /\ request.headers["Authorization"] = <<"Bearer ", ExpectedCredential.s>>
          /\ request.headers["Accept"] = <<"application/json">>
          /\ ExpectedCredential.s # ""

C2_Witness ==
    /\ Sent
    /\ init_arg = StrV("k1")
    /\ environ = StrV("envk")
    /\ request.headers["Authorization"] = <<"Bearer ", "k1">>

BooleanKeys == {"include_context", "include_closed", "include_resolved"}

\* C3: the value of every boolean parameter (include_context, include_closed,
\* include_resolved) in the query parameter set of a request is the string
\* "true" or the string "false", never a native boolean.
C3_BooleansAreLowercaseStrings ==
    Sent => \A k \in BooleanKeys \cap DOMAIN request.params :
                request.params[k] \in {StrV("true"), StrV("false")}

\* the value a required parameter of list_markets is expected to be sent with
ExpectedRequired(a, k) ==
    CASE k = "limit"    -> IF a[k] = Unsupplied THEN IntV(DefaultListLimit) ELSE a[k]
      [] k = "offset"   -> IF a[k] = Unsupplied THEN IntV(DefaultOffset) ELSE a[k]
      [] k = "sort_by"  -> IF a[k] = Unsupplied THEN StrV("updated_at") ELSE a[k]
      [] k = "sort_dir" -> IF a[k] = Unsupplied THEN StrV("desc") ELSE a[k]
      [] OTHER          -> IF a[k] = BoolV(TRUE) THEN StrV("true") ELSE StrV("false")

\* C4: the query parameter set list_markets sends to /api/markets has the six
\* keys limit, offset, sort_by, sort_dir, include_closed, include_resolved with
\* the given or default values, and has the key of an optional filter exactly
\* when the caller passed a value other than None for it, with that value.
C4_ListMarketsParams ==
    (Sent /\ call.op = "list_markets") =>
        LET a == call.args
            p == request.params
        IN  /\ request.url = BASE_URL \o MarketsEndpoint
            /\ RequiredKeys \subseteq DOMAIN p
            /\ DOMAIN p \subseteq RequiredKeys \cup OptionalKeys
            /\ \A k \in RequiredKeys : p[k] = ExpectedRequired(a, k)
            /\ \A k \in OptionalKeys :
                  /\ k \in DOMAIN p <=> a[k] \notin {Unsupplied, None}
                  /\ k \in DOMAIN p => p[k] = a[k]

C4_Witness ==
    /\ Sent
    /\ call.op = "list_markets"
    /\ call.args["platform"] = StrV("kalshi")
    /\ call.args["probability_min"] = FloatV("0.5")
    /\ call.args["keyword"] = StrV("")
    /\ call.args["status"] = Unsupplied
    /\ DOMAIN request.params = RequiredKeys \cup {"platform", "probability_min", "keyword"}

\* the response is one of the transport failures: an exception of the
\* connection, a status outside 200..299, or a body that is not JSON
IsTransportFailure(resp) ==
    \/ resp.kind \in {"ConnectionError", "Timeout"}
    \/ resp.kind = "response" /\ ~(200 <= resp.status /\ resp.status < 300)
    \/ resp.kind = "response" /\ ~resp.json

\* C5: after every transport failure of a GET (connection error, timeout,
\* non-success status, body that is not JSON) the call has raised AdjNewsError
\* with a message that contains the request URL, and has returned no payload.
C5_EveryTransportFailureRaises ==
    (pc = "idle" /\ response # NoResponse /\ IsTransportFailure(response)) =>
        /\ result.outcome = "raised"
        /\ result.cls = "AdjNewsError"
        /\ Contains(result.msg, url)
        /\ result.value = ""

\* s without its trailing slashes, without recursion: the prefix of s that does
\* not end in a slash and is followed by slashes only
IsRightStripped(s, core) ==
    \E i \in 0..Len(s) :
        /\ core = SubSeq(s, 1, i)
        /\ i > 0 => s[i] # "/"
        /\ \A k \in (i + 1)..Len(s) : s[k] = "/"

\* s without its leading slashes
IsLeftStripped(s, core) ==
    \E j \in 0..Len(s) :
        /\ core = SubSeq(s, j + 1, Len(s))
        /\ j < Len(s) => s[j + 1] # "/"
        /\ \A k \in 1..j : s[k] = "/"

\* C6: for every base URL and endpoint, with or without trailing and leading
\* slashes, the URL _get builds is the base without its trailing slashes, one
\* slash, and the endpoint without its leading slashes; both example joins of
\* the specification give https://api.example.com/api/markets.
C6_ExactlyOneSlash ==
    (Sent /\ call.op = "_get") =>
        LET e == call.args.endpoint IN
        /\ request.url = url
        /\ \E i \in 0..Len(baseUrl), j \in 0..Len(e) :
              /\ Len(url) = i + 1 + j
              /\ url[i + 1] = "/"
              /\ IsRightStripped(baseUrl, SubSeq(url, 1, i))
              /\ IsLeftStripped(e, SubSeq(url, i + 2, Len(url)))
              /\ i > 0 => url[i] # "/"
              /\ j > 0 => url[i + 2] # "/"
        /\ (baseUrl \in ExampleBases /\ e \in ExampleEndpoints) => url = ExampleUrl

C6_Witness ==
    /\ Sent
    /\ call.op = "_get"
    /\ baseUrl = <<"https:", "/", "/", "api.example.com", "/">>
    /\ call.args.endpoint = <<"/", "api", "/", "markets">>
    /\ url = ExampleUrl

\* C7: semantic_search sends its request to /api/search/query with exactly the
\* keys q, limit and include_context: q is the query argument, limit the given
\* value or 10, include_context is present, and false, also when it was not
\* passed; when the call returns, it returns the decoded payload unchanged.
C7_SemanticSearchRequest ==
    /\ (Sent /\ call.op = "semantic_search") =>
          LET a == call.args
              p == request.params
          IN  /\ request.url = BASE_URL \o SearchEndpoint
              /\ DOMAIN p = {"q", "limit", "include_context"}
              /\ p["q"] = a.query
              /\ p["limit"] = IF a.limit = Unsupplied THEN IntV(DefaultSearchLimit)
                                                      ELSE a.limit
              /\ a.include_context = Unsupplied =>
                    p["include_context"] \in {BoolV(FALSE), StrV("false")}
    /\ (result.op = "semantic_search" /\ result.outcome = "returned") =>
          /\ response.kind = "response"
          /\ response.json
          /\ result.value = response.value

C7_Witness ==
    /\ Sent
    /\ call.op = "semantic_search"
    /\ call.args.query = StrV("inflation")
    /\ call.args.limit = Unsupplied
    /\ call.args.include_context = Unsupplied
    /\ request.params["limit"] = IntV(10)

C7_WitnessReturned ==
    /\ result.op = "semantic_search"
    /\ result.outcome = "returned"
    /\ result.value = "p2"

\* C8: construction sends no request, and every call of semantic_search or
\* list_markets sends exactly one GET, whether it succeeds or fails: the number
\* of requests sent equals the number of calls started at all times, and once
\* a call has raised nothing is on the wire.
C8_OneRequestPerCall ==
    /\ nsent = ncalls
    /\ result.op = "__init__" => (nsent = 0 /\ request = NoRequest)
    /\ pc = "sent" <=> Sent
    /\ result.outcome = "raised" => (pc = "idle" /\ request = NoRequest)

C8_Witness ==
    /\ ncalls = 2
    /\ nsent = 2
    /\ result.op = "list_markets"
    /\ result.outcome = "raised"

\* the request an operation is expected to send for its arguments alone
ExpectedParams(c) ==
    IF c.op = "list_markets" THEN ListParams(c.args) ELSE SearchParams(c.args)

ExpectedUrl(c) ==
    BASE_URL \o (IF c.op = "list_markets" THEN MarketsEndpoint ELSE SearchEndpoint)

\* C9: no call of semantic_search or list_markets, successful or failed,
\* changes the client's credential, session or default headers, and the URL
\* and parameters of a request are those its own arguments give, whatever
\* calls came before.
C9_CallsLeaveClientUnchanged ==
    [][/\ client # NoClient => client' = client
       /\ request' # NoRequest =>
             /\ request'.url = ExpectedUrl(call')
             /\ request'.params = ExpectedParams(call')
             /\ request'.headers = client.session.headers]_vars

C9_Witness ==
    /\ ncalls = 2
    /\ Sent
    /\ call.op = "semantic_search"
    /\ client.session.params = EmptyDict

\* C10: list_markets and semantic_search validate nothing locally: any sort_by
\* and sort_dir, and an empty query, go unchanged into the parameter set of the
\* one GET of the call, and an operation raises only after a transport failure.
C10_NoLocalValidation ==
    /\ (Sent /\ call.op = "list_markets") =>
          /\ call.args["sort_by"] # Unsupplied =>
                request.params["sort_by"] = call.args["sort_by"]
          /\ call.args["sort_dir"] # Unsupplied =>
                request.params["sort_dir"] = call.args["sort_dir"]
    /\ (Sent /\ call.op = "semantic_search") => request.params["q"] = call.args.query
    /\ call # NoCall => (Sent /\ result = NoResult /\ nsent = ncalls)
    /\ (result.outcome = "raised" /\ result.op # "__init__") =>
          /\ response # NoResponse
          /\ TryBlock(response) # NoException

C10_Witness ==
    /\ Sent
    /\ call.op = "list_markets"
    /\ call.args["sort_by"] = StrV("bogus")
    /\ call.args["sort_dir"] = StrV("sideways")
    /\ request.params["sort_by"] = StrV("bogus")

C10_WitnessEmptyQuery ==
    /\ Sent
    /\ call.op = "semantic_search"
    /\ call.args.query = StrV("")

====
